---- MODULE Spec2Model ----
(***************************************************************************)
(* Model of the SEO analysis pipeline of 0xnomy/seo_ranking: the rate      *)
(* limit helpers of utils.py, the analysis stages (keyword, backlink, url, *)
(* image, SEO report) and SEOCrew.run_analysis of main.py.                 *)
(*                                                                         *)
(* Text is modelled as sequences of one-character strings so that          *)
(* str.lower(), the `in` substring test, str.strip() and str.replace()     *)
(* are computed, not assumed.  Time is counted in jitter steps: one        *)
(* second is Ulp1 steps.                                                   *)
(***************************************************************************)
EXTENDS Integers, Sequences, FiniteSets, TLC

VARIABLES
    unit,          \* last direct call of a utils.py function: arguments and observed effects
    doc,           \* the shared in-memory document (the seo_data dict)
    files,         \* the output directory: path -> content written last
    errorLog,      \* seo_output/error.log, one record per line
    stage,         \* the stage function being executed, "none" between invocations
    pc,            \* position inside the executing stage function
    retry_count,   \* the local retry_count of the executing stage
    cursor,        \* image stage: index of the next image of images_with_base64 to describe
    image_descriptions, \* image stage: the local list image_descriptions
    outcome,       \* value returned by the last finished stage invocation
    trace,         \* what the current invocation did so far: calls, sleeps, log lines, writes
    invocations,   \* number of stage invocations started
    rpc,           \* position inside run_analysis, "none" when it is not running
    raw,           \* run_analysis: the results of the three tasks, the raw of its result
    runOutcome,    \* value run_analysis returned
    runTrace       \* what run_analysis itself did: fetch, task executions, sleeps, writes

vars == <<unit, doc, files, errorLog, stage, pc, retry_count, cursor,
          image_descriptions, outcome, trace, invocations, rpc, raw, runOutcome,
          runTrace>>

runVars == <<rpc, raw, runOutcome, runTrace>>

stageVars == <<doc, files, errorLog, stage, pc, retry_count, cursor,
               image_descriptions, outcome, trace, invocations>>

(***************************************************************************)
(* Bounds of the model.                                                    *)
(***************************************************************************)
MantissaBits == 5        \* significand bits of the modelled float (binary64 has 53)
MaxRetriesArg == 3       \* largest max_retries passed to handle_rate_limit directly
MaxInvocations == 1      \* stage invocations per behaviour

(***************************************************************************)
(* config.py                                                               *)
(***************************************************************************)
RATE_LIMIT_DELAY == 30
MAX_RETRIES == 3
API_CALL_DELAY == 25

(***************************************************************************)
(* Text.                                                                   *)
(***************************************************************************)
UpperCase == <<"A", "B", "C", "D", "E", "F", "G", "H", "I", "J", "K", "L", "M",
               "N", "O", "P", "Q", "R", "S", "T", "U", "V", "W", "X", "Y", "Z">>
LowerCase == <<"a", "b", "c", "d", "e", "f", "g", "h", "i", "j", "k", "l", "m",
               "n", "o", "p", "q", "r", "s", "t", "u", "v", "w", "x", "y", "z">>

\* str.lower() on one character
LowerChar(c) ==
    IF \E i \in 1..26 : UpperCase[i] = c
    THEN LowerCase[CHOOSE i \in 1..26 : UpperCase[i] = c]
    ELSE c

\* str.lower()
Lower(s) == [i \in 1..Len(s) |-> LowerChar(s[i])]

\* the Python test `p in s` on strings
Contains(s, p) ==
    \E i \in 0..(Len(s) - Len(p)) : SubSeq(s, i + 1, i + Len(p)) = p

Digits == <<"0", "1", "2", "3", "4", "5", "6", "7", "8", "9">>

\* str(n) of a non-negative integer, as an f-string formats it
RECURSIVE IntToStr(_)
IntToStr(n) == IF n < 10 THEN <<Digits[n + 1]>>
               ELSE IntToStr(n \div 10) \o <<Digits[(n % 10) + 1]>>

(***************************************************************************)
(* utils.py                                                                *)
(***************************************************************************)
\* the phrases of is_rate_limit_error, in source order
RateLimitPhrases == <<
    <<"r", "a", "t", "e", " ", "l", "i", "m", "i", "t">>,
    <<"r", "a", "t", "e", "_", "l", "i", "m", "i", "t">>,
    <<"t", "p", "m">>,
    <<"t", "o", "k", "e", "n", "s", " ", "p", "e", "r", " ", "m", "i", "n", "u", "t", "e">>,
    <<"l", "i", "m", "i", "t", " ", "e", "x", "c", "e", "e", "d", "e", "d">> >>

\* the same test without .lower()
is_rate_limit_error_case_sensitive(error) ==
    \E n \in 1..Len(RateLimitPhrases) : Contains(error, RateLimitPhrases[n])

is_rate_limit_error(error) ==
    LET error_str == Lower(error)
    IN  \E n \in 1..Len(RateLimitPhrases) : Contains(error_str, RateLimitPhrases[n])

\* Something a function did that is visible outside it.  ev is "log" (a line
\* appended to error.log), "sleep" (time.sleep), "call" (a request sent to the
\* reasoning service), "returned" / "raised" (how that request ended) or
\* "write" (an output file written or not).
Event(ev, agent, what, secs, call, text) ==
    [ev |-> ev, agent |-> agent, what |-> what, secs |-> secs, call |-> call,
     text |-> text]

\* log_error(message, agent): the line appended to error.log, always with a
\* timestamp; agent "" is agent=None, what names the message's fixed part and
\* text its formatted argument
log_error(what, text, agent) == <<Event("log", agent, what, 0, "", text)>>

\* time.sleep(d), d in jitter steps
Sleep(what, d) == Event("sleep", "", what, d, "", <<>>)

\* jitter steps per second: random.random() is a multiple of 2^-MantissaBits
Ulp1 == 2 ^ MantissaBits

\* delay_between_calls(seconds): a log line without agent, then the sleep
delay_between_calls(seconds) ==
    log_error("waiting", IntToStr(seconds), "") \o <<Sleep("pacing", seconds * Ulp1)>>

RECURSIVE Binade(_)
\* largest power of two that is <= n, for n >= 1
Binade(n) == IF n < 2 THEN 1 ELSE 2 * Binade(n \div 2)

\* round n to a multiple of q, ties to the even multiple (IEEE 754 default)
RoundHalfEven(n, q) ==
    LET lo == (n \div q) * q
        r  == n - lo
    IN  IF 2 * r < q THEN lo
        ELSE IF 2 * r > q THEN lo + q
        ELSE IF (n \div q) % 2 = 0 THEN lo ELSE lo + q

\* the float sum b + k/Ulp1 of an integer b and a jitter k/Ulp1, in jitter
\* steps: floats of magnitude in [2^e, 2^(e+1)) are 2^(e+1) steps apart,
\* those of magnitude below 1 that occur here are exact
FloatAdd(b, k) ==
    LET v     == b * Ulp1 + k
        m     == IF v < 0 THEN 0 - v ELSE v
        whole == m \div Ulp1
    IN  IF whole = 0 THEN v
        ELSE IF v < 0 THEN 0 - RoundHalfEven(m, 2 * Binade(whole))
        ELSE RoundHalfEven(m, 2 * Binade(whole))

\* str(e) of the ValueError time.sleep raises for a negative argument
NegativeSleepMsg ==
    <<"s", "l", "e", "e", "p", " ", "l", "e", "n", "g", "t", "h", " ", "m", "u", "s", "t", " ",
      "b", "e", " ", "n", "o", "n", "-", "n", "e", "g", "a", "t", "i", "v", "e">>

\* what handle_rate_limit does once it has computed delay: the log line,
\* then time.sleep(delay), which raises for a negative delay
SleepAndReturn(rc, delay) ==
    IF delay < 0
    THEN [raised |-> TRUE, error |-> NegativeSleepMsg, ret |-> rc,
          effects |-> log_error("rate_limit_wait", IntToStr(rc + 1), "")]
    ELSE [raised |-> FALSE, error |-> <<>>, ret |-> rc + 1,
          effects |-> log_error("rate_limit_wait", IntToStr(rc + 1), "")
                      \o <<Sleep("backoff", delay)>>]

\* the message of the exception raised when retries are exhausted
ExhaustedMsg(max_retries) ==
    <<"R", "a", "t", "e", " ", "l", "i", "m", "i", "t", " ", "e", "x", "c", "e",
      "e", "d", "e", "d", " ", "a", "f", "t", "e", "r", " ">>
    \o IntToStr(max_retries) \o <<" ", "r", "e", "t", "r", "i", "e", "s">>

\* handle_rate_limit with the exhaustion test placed after the sleep
handle_rate_limit_sleeps_first(rc, max_retries, base_delay, jitter) ==
    LET r == SleepAndReturn(rc, FloatAdd(base_delay * (2 ^ rc), jitter))
    IN  IF rc >= max_retries /\ ~r.raised
        THEN [raised |-> TRUE, error |-> ExhaustedMsg(max_retries), ret |-> rc,
              effects |-> r.effects]
        ELSE r

\* handle_rate_limit with a delay that doubles per attempt by addition
handle_rate_limit_linear(rc, max_retries, base_delay, jitter) ==
    IF rc >= max_retries
    THEN [raised |-> TRUE, error |-> ExhaustedMsg(max_retries), ret |-> rc,
          effects |-> <<>>]
    ELSE SleepAndReturn(rc, FloatAdd(base_delay * (2 * rc), jitter))

\* handle_rate_limit(retry_count, max_retries, base_delay) with the value
\* random.uniform(0, 1) drew (jitter/Ulp1): what it raises or returns, and
\* its effects in order
handle_rate_limit(rc, max_retries, base_delay, jitter) ==
    IF rc >= max_retries
    THEN [raised |-> TRUE, error |-> ExhaustedMsg(max_retries), ret |-> rc,
          effects |-> <<>>]
    ELSE SleepAndReturn(rc, FloatAdd(base_delay * (2 ^ rc), jitter))

(***************************************************************************)
(* Direct calls of the utils.py functions.                                 *)
(***************************************************************************)
BaseDelays == {-1, 0, 1, 20, RATE_LIMIT_DELAY}

Prefixes == { <<>>, <<"E", "r", "r", "o", "r", ":", " ">>, <<"x">> }
Suffixes == { <<>>, <<" ", "r", "e", "a", "c", "h", "e", "d">>, <<"m">> }
Middles ==
    { RateLimitPhrases[n] : n \in 1..Len(RateLimitPhrases) } \cup
    { <<"R", "A", "T", "E", " ", "L", "I", "M", "I", "T">>,
      <<"R", "a", "t", "e", "_", "L", "i", "m", "i", "t">>,
      <<"T", "P", "M">>,
      <<"T", "o", "k", "e", "n", "s", " ", "P", "e", "r", " ", "M", "i", "n", "u", "t", "e">>,
      <<"L", "i", "m", "i", "t", " ", "E", "x", "c", "e", "e", "d", "e", "d">>,
      <<"r", "a", "t", "e", "l", "i", "m", "i", "t">>,
      <<"r", "a", "t", "e", "-", "l", "i", "m", "i", "t">>,
      <<"t", "p">>,
      <<"t", "o", "k", "e", "n", "s", " ", "p", "e", "r", " ", "m", "i", "n">>,
      <<"l", "i", "m", "i", "t", " ", "e", "x", "c", "e", "e", "d", "e">>,
      <<"r", "a", "t", "e", " ", " ", "l", "i", "m", "i", "t">>,
      <<"t", "i", "m", "e", "o", "u", "t">>,
      <<>> }

UnitIdle ==
    [op |-> "none", error |-> <<>>, rc |-> 0, max_retries |-> 0, base_delay |-> 0,
     jitter |-> 0, verdict |-> FALSE, raised |-> FALSE, raisedError |-> <<>>,
     ret |-> 0, effects |-> <<>>]

\* is_rate_limit_error(error) called on a message
CallIsRateLimitError ==
    /\ unit.op = "none"
    /\ \E pre \in Prefixes, mid \in Middles, suf \in Suffixes :
          LET error == pre \o mid \o suf
          IN  unit' = [UnitIdle EXCEPT !.op = "is_rate_limit_error",
                                       !.error = error,
                                       !.verdict = is_rate_limit_error(error)]
    /\ UNCHANGED stageVars
    /\ UNCHANGED runVars

\* handle_rate_limit(retry_count, max_retries, base_delay) called directly
CallHandleRateLimit ==
    /\ unit.op = "none"
    /\ \E rc \in 0..(MaxRetriesArg + 1), mx \in 0..MaxRetriesArg,
          base \in BaseDelays, jitter \in 0..(Ulp1 - 1) :
          LET r == handle_rate_limit(rc, mx, base, jitter)
          IN  unit' = [UnitIdle EXCEPT !.op = "handle_rate_limit",
                                       !.rc = rc, !.max_retries = mx,
                                       !.base_delay = base, !.jitter = jitter,
                                       !.raised = r.raised, !.raisedError = r.error,
                                       !.ret = r.ret, !.effects = r.effects]
    /\ UNCHANGED stageVars
    /\ UNCHANGED runVars

(***************************************************************************)
(* The shared document and the output directory.                           *)
(***************************************************************************)
DocKeys == {"url", "title", "meta_tags", "headings", "paragraphs", "images",
            "scraped_at", "image_descriptions", "image_analysis",
            "keyword_analysis", "backlink_analysis", "url_analysis",
            "content_analysis", "seo_report", "analysis_report"}

\* a key of the dict: present with a value, or not in the dict
Entry(v) == [has |-> TRUE, val |-> v]
Missing == [has |-> FALSE, val |-> <<>>]

\* dict.get(key, default)
Get(d, k, default) == IF d[k].has THEN d[k].val ELSE default

Whitespace == {" ", "\n", "\t"}

RECURSIVE Strip(_)
\* str.strip()
Strip(s) ==
    IF s = <<>> THEN s
    ELSE IF Head(s) \in Whitespace THEN Strip(Tail(s))
    ELSE IF s[Len(s)] \in Whitespace THEN Strip(SubSeq(s, 1, Len(s) - 1))
    ELSE s

\* index of the first / last position of s holding a character of cs, 0 if none
FirstIndex(s, cs) ==
    IF \E i \in 1..Len(s) : s[i] \in cs
    THEN CHOOSE i \in 1..Len(s) : s[i] \in cs /\ \A j \in 1..(i - 1) : s[j] \notin cs
    ELSE 0
LastIndex(s, cs) ==
    IF \E i \in 1..Len(s) : s[i] \in cs
    THEN CHOOSE i \in 1..Len(s) : s[i] \in cs /\ \A j \in (i + 1)..Len(s) : s[j] \notin cs
    ELSE 0

\* urlparse(url).netloc: after the scheme, the text between "//" and the
\* next "/", "?" or "#"; empty when there is no "//"
Netloc(url) ==
    LET colon == FirstIndex(url, {":"})
        rest  == IF colon > 0 THEN SubSeq(url, colon + 1, Len(url)) ELSE url
    IN  IF Len(rest) >= 2 /\ rest[1] = "/" /\ rest[2] = "/"
        THEN LET after == SubSeq(rest, 3, Len(rest))
                 stop  == FirstIndex(after, {"/", "?", "#"})
             IN  IF stop = 0 THEN after ELSE SubSeq(after, 1, stop - 1)
        ELSE <<>>

\* domain.replace('.', '_')
ReplaceDots(s) == [i \in 1..Len(s) |-> IF s[i] = "." THEN "_" ELSE s[i]]

OUTPUT_DIR == <<"s", "e", "o", "_", "o", "u", "t", "p", "u", "t">>
Unknown == <<"u", "n", "k", "n", "o", "w", "n">>

\* os.path.join(Config.OUTPUT_DIR, f"{domain.replace('.', '_')}_analysis.json")
\* with domain = urlparse(seo_data.get('url', 'unknown')).netloc
AnalysisPath(d) ==
    OUTPUT_DIR \o <<"/">> \o ReplaceDots(Netloc(Get(d, "url", Unknown)))
    \o <<"_", "a", "n", "a", "l", "y", "s", "i", "s", ".", "j", "s", "o", "n">>

\* the same with the suffix _final_report.txt
ReportPath(d) ==
    OUTPUT_DIR \o <<"/">> \o ReplaceDots(Netloc(Get(d, "url", Unknown)))
    \o <<"_", "f", "i", "n", "a", "l", "_", "r", "e", "p", "o", "r", "t", ".", "t", "x", "t">>

\* open(path, 'w') followed by a completed dump / write of content
WriteFile(fs, path, content) ==
    [p \in (DOMAIN fs) \cup {path} |-> IF p = path THEN content ELSE fs[p]]

\* str(e) of the OSError open(path, 'w') raises: it quotes the path
OpenFailedMsg(path) ==
    <<"P", "e", "r", "m", "i", "s", "s", "i", "o", "n", " ", "d", "e", "n", "i", "e", "d",
      ":", " ">> \o path

\* os.path.splitext(path)[1]: from the last "." of the last path component,
\* unless that component has nothing but dots before it
SplitExt(path) ==
    LET sep == LastIndex(path, {"/"})
        dot == LastIndex(path, {"."})
    IN  IF dot > sep /\ \E k \in (sep + 1)..(dot - 1) : path[k] # "."
        THEN SubSeq(path, dot, Len(path))
        ELSE <<>>

allowed_exts == { <<".", "j", "p", "e", "g">>, <<".", "j", "p", "g">>,
                  <<".", "p", "n", "g">>, <<".", "w", "e", "b", "p">> }

\* the mime_type dict lookup with its default
MimeType(ext) ==
    IF ext = <<".", "p", "n", "g">> THEN "image/png"
    ELSE IF ext = <<".", "w", "e", "b", "p">> THEN "image/webp"
    ELSE "image/jpeg"

\* one entry of the images list; local_path <<>> is None, base64_data FALSE
\* is an entry without the key
Image(url, local_path, alt) ==
    [url |-> url, local_path |-> local_path, alt |-> alt, title |-> "",
     base64_data |-> FALSE, mime_type |-> ""]

\* the selection with the extension compared as it is spelled
filtered_images_case_sensitive(images) ==
    LET Keep(img) == /\ img.local_path # <<>>
                     /\ SplitExt(img.local_path) \in allowed_exts
        kept == SelectSeq(images, Keep)
    IN  SubSeq(kept, 1, IF Len(kept) < 2 THEN Len(kept) ELSE 2)

\* [img for img in images if img.get('local_path') and
\*  os.path.splitext(img['local_path'])[1].lower() in allowed_exts][:2]
filtered_images(images) ==
    LET Keep(img) == /\ img.local_path # <<>>
                     /\ Lower(SplitExt(img.local_path)) \in allowed_exts
        kept == SelectSeq(images, Keep)
    IN  SubSeq(kept, 1, IF Len(kept) < 2 THEN Len(kept) ELSE 2)

(***************************************************************************)
(* Inputs: the documents a stage is invoked on and what the environment    *)
(* (reasoning service, file system) answers.                               *)
(***************************************************************************)
JpgUpper == Image("u1", <<"i", "/", "a", ".", "J", "P", "G">>, "logo")
Gif == Image("u2", <<"i", "/", "b", ".", "g", "i", "f">>, "")
Png == Image("u3", <<"i", "/", "c", ".", "p", "n", "g">>, "")
Webp == Image("u4", <<"i", "/", "d", ".", "w", "e", "b", "p">>, "w")
Bmp == Image("u5", <<"i", "/", "e", ".", "b", "m", "p">>, "")
NoFile == Image("image_0", <<>>, "")

\* the dict the Fetcher returns (scraper_agent.py), images as given
ScrapedDoc(url, images) ==
    [k \in DocKeys |->
        CASE k = "url"        -> Entry(url)
          [] k = "title"      -> Entry(<<"T">>)
          [] k = "meta_tags"  -> Entry(<<"d">>)
          [] k = "headings"   -> Entry(<<"h", "1">>)
          [] k = "paragraphs" -> Entry(<<"p">>)
          [] k = "images"     -> Entry(images)
          [] k = "scraped_at" -> Entry(<<"n", "o", "w">>)
          [] OTHER            -> Missing]

UrlA == <<"h", "t", "t", "p", "s", ":", "/", "/", "a", ".", "i", "o", "/", "p">>
UrlTpm == <<"h", "t", "t", "p", ":", "/", "/", "t", "p", "m", ".", "i", "o">>

InitialDocs ==
    { ScrapedDoc(UrlA, <<JpgUpper, Gif, Png, Webp, Bmp>>),
      ScrapedDoc(UrlTpm, <<NoFile, Png>>),
      [ScrapedDoc(<<>>, <<>>) EXCEPT !["url"] = Missing] }

\* message.content of a response of the reasoning service
Responses == { <<" ", "A", "\n">> }

\* str(e) of the errors the reasoning service raises
ServiceErrors == { <<"4", "2", "9", " ", "T", "P", "M">>,
                   <<"C", "o", "n", "n", "e", "c", "t", "i", "o", "n", " ", "t", "i", "m", "e", "o", "u", "t">> }

\* what open(path, 'w') does
WriteFaults == {"ok", "open_fails"}

\* what reading a selected image's local file does
FileStates == {"ok", "missing", "unreadable"}

\* values random.uniform(0, 1) takes inside a stage, in jitter steps
StageJitters == {Ulp1 - 1}

(***************************************************************************)
(* The analysis stages.                                                    *)
(***************************************************************************)
TextStages == {"keyword", "backlink", "url", "seo"}
Stages == TextStages \cup {"image"}

\* the key a stage writes its result under
StageKey(s) ==
    CASE s = "keyword"  -> "keyword_analysis"
      [] s = "backlink" -> "backlink_analysis"
      [] s = "url"      -> "url_analysis"
      [] s = "image"    -> "image_analysis"
      [] s = "seo"      -> "seo_report"

\* the agent= argument of the stage's log_error call
StageAgent(s) ==
    CASE s = "keyword"  -> "KeywordAnalyzerAgent"
      [] s = "backlink" -> "BacklinkAnalyzerAgent"
      [] s = "url"      -> "URLAnalyzerAgent"
      [] s = "image"    -> "ImageAnalyzerAgent"
      [] s = "seo"      -> "SEOAnalyzerAgent"

\* the fixed part of the stage's failure log line
StageFn(s) ==
    CASE s = "keyword"  -> "analyze_keywords error"
      [] s = "backlink" -> "analyze_backlinks error"
      [] s = "url"      -> "analyze_urls error"
      [] s = "image"    -> "analyze_images error"
      [] s = "seo"      -> "analyze_seo_performance error"

\* the key of the success record
CompleteFlag(s) ==
    CASE s = "keyword"  -> "keyword_analysis_complete"
      [] s = "backlink" -> "backlink_analysis_complete"
      [] s = "url"      -> "url_analysis_complete"
      [] s = "image"    -> "image_analysis_complete"
      [] s = "seo"      -> "seo_analysis_complete"

NoOutcome == [kind |-> "none", flag |-> "", file |-> <<>>, error |-> <<>>]

\* return {"<stage>_analysis_complete": True, "file": filepath}
SuccessOutcome(s, filepath) ==
    [kind |-> "success", flag |-> CompleteFlag(s), file |-> filepath, error |-> <<>>]

\* return {"error": str(e)}
ErrorOutcome(e) == [kind |-> "error", flag |-> "", file |-> <<>>, error |-> e]

\* the assignment with the key of the keyword stage in every stage
StoreResult_keywordKey(d, s, analysis) ==
    IF s = "seo" THEN d ELSE [d EXCEPT !["keyword_analysis"] = Entry(analysis)]

\* seo_data['<stage>_analysis'] = analysis; the SEO report stage leaves the
\* document alone
StoreResult(d, s, analysis) ==
    IF s = "seo" THEN d ELSE [d EXCEPT ![StageKey(s)] = Entry(analysis)]

\* the file a stage writes on success and what it writes there
StagePath(d, s) == IF s = "seo" THEN ReportPath(d) ELSE AnalysisPath(d)
StageContent(d, s, analysis) == IF s = "seo" THEN analysis ELSE d

\* a loop test that admits one more round: `while retry_count <= MAX_RETRIES`
LoopContinues_inclusive(rc) == rc <= MAX_RETRIES

\* the prompt of analyze_keywords / analyze_backlinks / analyze_urls /
\* analyze_seo_performance: the stage's instructions and json.dumps(seo_data),
\* the text of the whole document with every key it has
StagePrompt(s, d) == [instructions |-> s, json |-> d]

\* the analysis_prompt of analyze_images: its instructions and the dump of
\* url, alt, title and local_path of the selected images
analysis_prompt(images) ==
    [instructions |-> "image",
     json |-> [i \in 1..Len(images) |->
                  [url |-> images[i].url, alt |-> images[i].alt,
                   title |-> images[i].title, local_path |-> images[i].local_path]]]

\* the messages of a description request: url, alt, title and mime type of
\* the one image, and its base64 data
single_image_prompt(img) ==
    [instructions |-> "describe",
     json |-> [url |-> img.url, alt |-> img.alt, title |-> img.title,
               mime_type |-> img.mime_type, image_url |-> img.base64_data]]

\* what the result request of stage s carries when its prompt is built from d
RequestPayload(s, d) ==
    IF s = "image" THEN analysis_prompt(Get(d, "images", <<>>)) ELSE StagePrompt(s, d)

\* the prompt of the executing stage's result request.  The image stage
\* builds it inside the loop from the images it selected; the other stages
\* build it once before the loop, so a repeated request carries the prompt
\* of the first, which was built from the document as the invocation found it
ResultPrompt ==
    LET sent == { i \in DOMAIN trace : trace[i].ev = "call" /\ trace[i].call = "result" }
    IN  IF stage = "image" \/ sent = {}
        THEN RequestPayload(stage, doc)
        ELSE trace[CHOOSE i \in sent : TRUE].text

\* the test of `while retry_count < Config.MAX_RETRIES`
LoopContinues(rc) == rc < MAX_RETRIES

\* an inner `except` that retries whatever was raised
Retryable_any(e) == TRUE

\* the test of the inner `except`: retry or re-raise
Retryable(e) == is_rate_limit_error(e)

IsLog(e) == e.ev = "log"

\* the events become part of the invocation's trace, its log lines are
\* appended to error.log
Emit(evs) ==
    /\ trace' = trace \o evs
    /\ errorLog' = errorLog \o SelectSeq(evs, IsLog)

\* os.path.join('seo_output', 'error.log')
LogPath == OUTPUT_DIR \o <<"/", "e", "r", "r", "o", "r", ".", "l", "o", "g">>

\* the state of a file that open() refuses
Locked == [locked |-> TRUE]

\* open(log_path, 'a') of log_error raises
LogUnwritable == LogPath \in DOMAIN files /\ files[LogPath] = Locked

\* the invocation ends with an exception that leaves the stage method
RaisedOutcome(e) == [kind |-> "raised", flag |-> "", file |-> <<>>, error |-> e]

NotLog(e) == e.ev # "log"

\* log_error raised: inside the `try` its exception reaches the outer
\* `except`, whose own log_error call raises again, outside any `try`
Propagate(evs) ==
    /\ trace' = trace \o SelectSeq(evs, NotLog)
    /\ errorLog' = errorLog
    /\ outcome' = RaisedOutcome(OpenFailedMsg(LogPath))
    /\ pc' = "done"

\* the outer `except Exception as e`: log_error(...) and return {"error": str(e)}
Fail(e, evs) ==
    IF LogUnwritable
    THEN Propagate(evs)
    ELSE /\ Emit(evs \o log_error(StageFn(stage), e, StageAgent(stage)))
         /\ outcome' = ErrorOutcome(e)
         /\ pc' = "done"

\* falling out of the loop with a plain `return {}` instead of the raise
Exhausted_swallowed(evs) ==
    /\ Emit(evs)
    /\ outcome' = [NoOutcome EXCEPT !.kind = "success"]
    /\ pc' = "done"

\* past the loop: raise Exception(f"Rate limit exceeded after {MAX_RETRIES} retries")
Exhausted(evs) == Fail(ExhaustedMsg(MAX_RETRIES), evs)

\* an inner `except` that goes round the loop again at once, without the
\* call of handle_rate_limit that counts the retry
InnerExcept_uncounted(e, evs) ==
    IF Retryable(e)
    THEN /\ Emit(evs)
         /\ outcome' = outcome
         /\ pc' = "call"
    ELSE Fail(e, evs)

\* an exception e raised inside the `try` of the retry loop
InnerExcept(e, evs) ==
    IF Retryable(e)
    THEN /\ Emit(evs)
         /\ outcome' = outcome
         /\ pc' = "backoff"
    ELSE Fail(e, evs)

Idle == pc \in {"idle", "done"} /\ invocations < MaxInvocations

\* analyze_keywords / analyze_backlinks / analyze_urls / analyze_seo_performance
\* up to the first request: the pacing delay, the prompt, retry_count = 0
Invoke(s) ==
    /\ Idle
    /\ s \in TextStages
    /\ stage' = s
    /\ invocations' = invocations + 1
    /\ IF LogUnwritable
       THEN /\ trace' = <<>>
            /\ errorLog' = errorLog
            /\ pc' = "done"
            /\ outcome' = RaisedOutcome(OpenFailedMsg(LogPath))
       ELSE /\ trace' = delay_between_calls(API_CALL_DELAY)
            /\ errorLog' = errorLog \o SelectSeq(delay_between_calls(API_CALL_DELAY), IsLog)
            /\ pc' = "call"
            /\ outcome' = NoOutcome
    /\ retry_count' = 0
    /\ cursor' = 0
    /\ image_descriptions' = <<>>
    /\ UNCHANGED <<unit, doc, files>>
    /\ UNCHANGED runVars

\* the base64 loop of analyze_images over the selected images; fs[i] is the
\* state of the i-th selected image's local file
images_with_base64(selected, fs) ==
    [i \in 1..Len(selected) |->
        IF fs[i] = "ok"
        THEN [selected[i] EXCEPT
                 !.base64_data = TRUE,
                 !.mime_type = MimeType(Lower(SplitExt(selected[i].local_path)))]
        ELSE selected[i]]

\* the log lines of that loop: one per file that exists but cannot be read
Base64Failures(selected, fs) ==
    LET Line(i) == IF fs[i] = "unreadable"
                   THEN log_error("Failed to convert image to base64",
                                  selected[i].local_path, "ImageAnalyzerAgent")
                   ELSE <<>>
        F[i \in 0..Len(selected)] == IF i = 0 THEN <<>> ELSE F[i - 1] \o Line(i)
    IN  F[Len(selected)]

\* analyze_images up to its first request: the pacing delay, the selection,
\* the base64 loop and the replacement of seo_data['images']; with nothing
\* selected the description loop is empty and the retry loop starts
analyze_images_entry ==
    /\ IF LogUnwritable
       THEN /\ trace' = <<>>
            /\ errorLog' = errorLog
            /\ doc' = doc
            /\ pc' = "done"
            /\ outcome' = RaisedOutcome(OpenFailedMsg(LogPath))
       ELSE /\ outcome' = NoOutcome
            /\ LET selected == filtered_images(Get(doc, "images", <<>>))
               IN  \E fs \in [1..Len(selected) -> FileStates] :
                     LET imgs == images_with_base64(selected, fs)
                         evs  == delay_between_calls(API_CALL_DELAY) \o Base64Failures(selected, fs)
                     IN  /\ trace' = evs
                         /\ errorLog' = errorLog \o SelectSeq(evs, IsLog)
                         /\ IF Len(imgs) = 0
                            THEN /\ doc' = [doc EXCEPT !["images"] = Entry(imgs),
                                                       !["image_descriptions"] = Entry(<<>>)]
                                 /\ pc' = "call"
                            ELSE /\ doc' = [doc EXCEPT !["images"] = Entry(imgs)]
                                 /\ pc' = "describe"
    /\ stage' = "image"
    /\ invocations' = invocations + 1
    /\ retry_count' = 0
    /\ cursor' = 1
    /\ image_descriptions' = <<>>
    /\ files' = files

\* analyze_images invoked on its own
InvokeImage ==
    /\ Idle
    /\ analyze_images_entry
    /\ UNCHANGED unit
    /\ UNCHANGED runVars

ErrorGeneratingDescription ==
    <<"E", "r", "r", "o", "r", " ", "g", "e", "n", "e", "r", "a", "t", "i", "n", "g", " ",
      "d", "e", "s", "c", "r", "i", "p", "t", "i", "o", "n">>

\* the end of one round of the description loop: the description (if any)
\* is appended, and after the last image seo_data['image_descriptions'] is
\* set and the retry loop starts
Described(descs) ==
    IF LogUnwritable /\ descs.err # <<>>
    THEN /\ Propagate(descs.evs)
         /\ UNCHANGED <<image_descriptions, cursor, doc>>
    ELSE /\ Emit(descs.evs)
         /\ image_descriptions' = image_descriptions \o descs.d
         /\ cursor' = cursor + 1
         /\ outcome' = outcome
         /\ IF cursor = Len(doc["images"].val)
            THEN /\ doc' = [doc EXCEPT !["image_descriptions"] =
                                           Entry(image_descriptions \o descs.d)]
                 /\ pc' = "call"
            ELSE /\ doc' = doc
                 /\ pc' = "describe"

\* a description loop without its own `except`: the error of a description
\* request reaches the outer `except` of the stage
AfterDescribe_aborting(descs) ==
    IF descs.err # <<>>
    THEN /\ Fail(descs.err, SubSeq(descs.evs, 1, 2))
         /\ UNCHANGED <<image_descriptions, cursor, doc>>
    ELSE Described(descs)

\* what follows the answer of a description request: the `try` ... `except
\* Exception` around it keeps every error inside the round
AfterDescribe(descs) == Described(descs)

\* one round of `for img_data in images_with_base64`: the description
\* request of an image that has base64_data, nothing for one that has not
Describe ==
    /\ pc = "describe"
    /\ stage = "image"
    /\ LET imgs == doc["images"].val
           img  == imgs[cursor]
           Call == Event("call", StageAgent(stage), "", 0, "describe", single_image_prompt(img))
       IN  \E descs \in
                IF img.base64_data
                THEN { [evs |-> <<Call, Event("returned", "", "", 0, "describe", r)>>,
                        err |-> <<>>,
                        d   |-> <<[url |-> img.url, description |-> Strip(r)]>>]
                         : r \in Responses } \cup
                     { [evs |-> <<Call, Event("raised", "", "", 0, "describe", e)>>
                                \o log_error("Failed to get image description", e,
                                             "ImageAnalyzerAgent"),
                        err |-> e,
                        d   |-> <<[url |-> img.url,
                                   description |-> ErrorGeneratingDescription]>>]
                         : e \in ServiceErrors }
                ELSE { [evs |-> <<>>, err |-> <<>>, d |-> <<>>] } :
             AfterDescribe(descs)
    /\ UNCHANGED <<unit, files, stage, retry_count, invocations>>
    /\ UNCHANGED runVars

\* the result request of the executing stage returned message.content = resp
\* and open(filepath, 'w') did w
Returned(resp, w) ==
    LET analysis == Strip(resp)
        doc1     == StoreResult(doc, stage, analysis)
        filepath == StagePath(doc1, stage)
        evs      == <<Event("call", StageAgent(stage), "", 0, "result", ResultPrompt),
                      Event("returned", "", "", 0, "result", resp)>>
    IN  /\ doc' = doc1
        /\ IF w = "ok"
           THEN /\ files' = WriteFile(files, filepath, StageContent(doc1, stage, analysis))
                /\ Emit(evs \o <<Event("write", "", "ok", 0, "", filepath)>>)
                /\ outcome' = SuccessOutcome(stage, filepath)
                /\ pc' = "done"
           ELSE /\ files' = files
                /\ InnerExcept(OpenFailedMsg(filepath),
                               evs \o <<Event("write", "", "failed", 0, "", filepath)>>)

\* the result request of the executing stage raised an error with str(e) = e
Raised(e) ==
    /\ InnerExcept(e, <<Event("call", StageAgent(stage), "", 0, "result", ResultPrompt),
                        Event("raised", "", "", 0, "result", e)>>)
    /\ UNCHANGED <<doc, files>>

\* one round of the `while` loop: groq_client.chat.completions.create(...)
\* and what follows it up to the return, the re-raise or the call of
\* handle_rate_limit
Request ==
    /\ pc = "call"
    /\ \/ \E e \in ServiceErrors : Raised(e)
       \/ \E resp \in Responses, w \in WriteFaults : Returned(resp, w)
    /\ UNCHANGED <<unit, stage, retry_count, cursor, image_descriptions, invocations>>
    /\ UNCHANGED runVars

\* retry_count = handle_rate_limit(retry_count, MAX_RETRIES, RATE_LIMIT_DELAY);
\* continue: the loop test, and past the loop the raise of the exhaustion
Backoff ==
    /\ pc = "backoff"
    /\ \E jitter \in StageJitters :
          LET r == handle_rate_limit(retry_count, MAX_RETRIES, RATE_LIMIT_DELAY, jitter)
          IN  IF r.raised
              THEN /\ Fail(r.error, r.effects)
                   /\ retry_count' = retry_count
              ELSE IF LogUnwritable
              THEN /\ Propagate(<<>>)
                   /\ retry_count' = retry_count
              ELSE /\ retry_count' = r.ret
                   /\ IF LoopContinues(r.ret)
                      THEN /\ Emit(r.effects)
                           /\ outcome' = outcome
                           /\ pc' = "call"
                      ELSE Exhausted(r.effects)
    /\ UNCHANGED <<unit, doc, files, stage, cursor, image_descriptions, invocations>>
    /\ UNCHANGED runVars

NoFiles == [p \in {} |-> <<>>]
NoRaw == [content_analysis |-> Missing, image_analysis |-> Missing, seo_report |-> Missing]
NoRun == [kind |-> "none", error |-> <<>>, raw |-> NoRaw]

\* everything but the document as it is before anything ran
InitRest ==
    /\ unit = UnitIdle
    /\ files = NoFiles
    /\ errorLog = <<>>
    /\ stage = "none"
    /\ pc = "idle"
    /\ retry_count = 0
    /\ cursor = 0
    /\ image_descriptions = <<>>
    /\ outcome = NoOutcome
    /\ trace = <<>>
    /\ invocations = 0
    /\ rpc = "none"
    /\ raw = NoRaw
    /\ runOutcome = NoRun
    /\ runTrace = <<>>

\* a document the Fetcher produced, no stage invoked yet
Init ==
    /\ doc \in InitialDocs
    /\ InitRest

Next ==
    \/ \E s \in TextStages : Invoke(s)
    \/ InvokeImage
    \/ Describe
    \/ Request
    \/ Backoff

\* stages invoked one after another on one shared document
Spec == Init /\ [][Next]_vars

NextUtil ==
    \/ CallIsRateLimitError
    \/ CallHandleRateLimit

\* the environment makes seo_output/error.log unwritable (permissions, a
\* full disk, a directory of that name), before or during a stage
LogBecomesUnwritable ==
    /\ ~LogUnwritable
    /\ files' = WriteFile(files, LogPath, Locked)
    /\ UNCHANGED <<unit, doc, errorLog, stage, pc, retry_count, cursor,
                   image_descriptions, outcome, trace, invocations>>
    /\ UNCHANGED runVars

NextLog ==
    \/ Next
    \/ LogBecomesUnwritable

\* the stages in an environment where the error log can become unwritable
SpecLog == Init /\ [][NextLog]_vars

\* the stages under a scheduler that lets a started invocation go on: the
\* calls inside a stage are synchronous, so a pending description round,
\* request or backoff is eventually executed
SpecFair == Spec /\ WF_vars(Describe) /\ WF_vars(Request) /\ WF_vars(Backoff)

\* the functions of utils.py called directly
SpecUtil == Init /\ [][NextUtil]_vars

(***************************************************************************)
(* SEOCrew.run_analysis (main.py).                                         *)
(***************************************************************************)
EmptyDoc == [k \in DocKeys |-> Missing]

\* what Agent.execute_task returns
CrewTexts == { <<"C">> }

\* str(e) of the errors the Fetcher reports
ScrapeErrors == { <<"D", "N", "S", " ", "f", "a", "i", "l", "u", "r", "e">> }

\* the same path rule with the suffix _simple_scrape.json
ScrapePath(d) ==
    OUTPUT_DIR \o <<"/">> \o ReplaceDots(Netloc(Get(d, "url", Unknown)))
    \o <<"_", "s", "i", "m", "p", "l", "e", "_", "s", "c", "r", "a", "p", "e", ".", "j", "s", "o", "n">>

\* the key of result.raw a task's output is stored under
TaskKey(t) ==
    CASE t = "content" -> "content_analysis"
      [] t = "image"   -> "image_analysis"
      [] t = "seo"     -> "seo_report"

\* the position after a task
AfterTask(t) ==
    CASE t = "content" -> "image"
      [] t = "image"   -> "seo"
      [] t = "seo"     -> "image_stage"

RunError(e) == [kind |-> "error", error |-> e, raw |-> NoRaw]

\* a run that goes on to the tasks whatever the Fetcher returned
AfterScrape_continues(failed) == "content"

\* `if "error" in scraped_data: return scraped_data`, else on to the tasks
AfterScrape(failed) == IF failed THEN "returned" ELSE "content"

\* run_analysis up to the first task: scrape_website(url), the test
\* `"error" in scraped_data`, create_tasks(scraped_data)
RunScrape ==
    /\ rpc = "none"
    /\ runOutcome.kind = "none"
    /\ \/ \E d \in InitialDocs :
            /\ d["url"].has
            /\ doc' = d
            /\ files' = WriteFile(files, ScrapePath(d), d)
            /\ errorLog' = errorLog
            /\ runTrace' = <<Event("fetch", "ScraperAgent", "ok", 0, "", d["url"].val)>>
            /\ runOutcome' = runOutcome
            /\ rpc' = AfterScrape(FALSE)
       \/ \E e \in ScrapeErrors :
            /\ doc' = doc
            /\ files' = files
            /\ errorLog' = errorLog \o log_error("scrape_website error", e, "ScraperAgent")
            /\ runTrace' = <<Event("fetch", "ScraperAgent", "failed", 0, "", e)>>
            /\ runOutcome' = RunError(e)
            /\ rpc' = AfterScrape(TRUE)
    /\ UNCHANGED <<unit, stage, pc, retry_count, cursor, image_descriptions, outcome,
                   trace, invocations, raw>>

\* the description of a task of create_tasks: its instructions and
\* json.dumps(scraped_data), dumped when the tasks are created; nothing
\* between create_tasks and the last task changes scraped_data
TaskDescription(t, scraped_data) == [instructions |-> t, json |-> scraped_data]

\* <task agent>.execute_task(task) and the time.sleep(Config.API_CALL_DELAY)
\* that follows it; an exception leaves through the outer `except` of
\* run_analysis
ExecuteTask ==
    /\ rpc \in {"content", "image", "seo"}
    /\ \/ \E t \in CrewTexts :
            /\ raw' = [raw EXCEPT ![TaskKey(rpc)] = Entry(t)]
            /\ runTrace' = runTrace \o
                   <<Event("call", "crew", rpc, 0, "task", TaskDescription(rpc, doc)),
                     Event("returned", "crew", rpc, 0, "task", t),
                     Sleep("pacing", API_CALL_DELAY * Ulp1)>>
            /\ runOutcome' = runOutcome
            /\ rpc' = AfterTask(rpc)
       \/ \E e \in ServiceErrors :
            /\ raw' = raw
            /\ runTrace' = runTrace \o
                   <<Event("call", "crew", rpc, 0, "task", TaskDescription(rpc, doc)),
                     Event("raised", "crew", rpc, 0, "task", e)>>
            /\ runOutcome' = RunError(e)
            /\ rpc' = "returned"
    /\ UNCHANGED <<unit, doc, files, errorLog, stage, pc, retry_count, cursor,
                   image_descriptions, outcome, trace, invocations>>

\* image_result = self.image_analyzer.analyze_images(scraped_data)
RunImageStage ==
    /\ rpc = "image_stage"
    /\ pc = "idle"
    /\ analyze_images_entry
    /\ rpc' = "image_running"
    /\ UNCHANGED <<unit, raw, runOutcome, runTrace>>

\* update that appends to the value a key already has
final_data_appending(scraped_data, r) ==
    [k \in DocKeys |->
        IF k \in DOMAIN r
        THEN IF scraped_data[k].has /\ r[k].has
             THEN Entry(scraped_data[k].val \o r[k].val)
             ELSE r[k]
        ELSE scraped_data[k]]

\* a merge that starts from an empty dict instead of a copy of scraped_data
final_data_from_empty(scraped_data, r) ==
    [k \in DocKeys |-> IF k \in DOMAIN r THEN r[k] ELSE Missing]

\* final_data.update(d) on a copy of scraped_data
final_data(scraped_data, r) ==
    [k \in DocKeys |-> IF k \in DOMAIN r THEN r[k] ELSE scraped_data[k]]

\* the values of result.raw and result.result: a dict, a str, or no such
\* attribute
NoKeys == [k \in {} |-> Missing]
DictValue(d) == [t |-> "dict", d |-> d, s |-> <<>>]
StrValue(s) == [t |-> "str", d |-> NoKeys, s |-> s]
Absent == [t |-> "absent", d |-> NoKeys, s |-> <<>>]

\* `hasattr(result, x) and result.x`
Truthy(v) == (v.t = "dict" /\ DOMAIN v.d # {}) \/ (v.t = "str" /\ v.s # <<>>)

\* what `result` can be: an object with attributes, or a dict
ObjectResult(rawValue, resultValue) ==
    [cls |-> "object", raw |-> rawValue, result |-> resultValue, d |-> NoKeys]
DictResult(d) == [cls |-> "dict", raw |-> Absent, result |-> Absent, d |-> d]

Quote == "\""
JsonLiterals == { <<"n", "u", "l", "l">>, <<"t", "r", "u", "e">>, <<"f", "a", "l", "s", "e">> }

\* a JSON number without sign, fraction or exponent
JsonNumber(s) == s # <<>> /\ \A i \in 1..Len(s) : s[i] \in {Digits[n] : n \in 1..Len(Digits)}

\* a JSON string without escapes
JsonString(s) ==
    /\ Len(s) >= 2
    /\ s[1] = Quote
    /\ s[Len(s)] = Quote
    /\ \A i \in 2..(Len(s) - 1) : s[i] \notin {Quote, "\\"}

JsonScalar(s) == JsonNumber(s) \/ JsonString(s) \/ s \in JsonLiterals

\* the keys a parsed object can carry into the document, as text
KeyText ==
    [seo_report |-> <<"s", "e", "o", "_", "r", "e", "p", "o", "r", "t">>,
     analysis_report |-> <<"a", "n", "a", "l", "y", "s", "i", "s", "_", "r", "e", "p", "o", "r", "t">>,
     title |-> <<"t", "i", "t", "l", "e">>]

NotJson == [raised |-> TRUE, isDict |-> FALSE, d |-> NoKeys]
JsonNotDict == [raised |-> FALSE, isDict |-> FALSE, d |-> NoKeys]
JsonDict(d) == [raised |-> FALSE, isDict |-> TRUE, d |-> d]

\* the one member "key": "value" of an object
JsonMember(key, value) ==
    IF JsonString(value) /\ \E k \in DOMAIN KeyText : KeyText[k] = key
    THEN JsonDict([k \in {kk \in DOMAIN KeyText : KeyText[kk] = key} |->
                      Entry(SubSeq(value, 2, Len(value) - 1))])
    ELSE NotJson

\* the text between the braces of an object, close the index of the quote
\* that ends the key
JsonMembers(inner, close) ==
    IF inner = <<>> THEN JsonDict(NoKeys)
    ELSE IF inner[1] = Quote /\ close >= 2 /\ close < Len(inner) /\ inner[close + 1] = ":"
    THEN JsonMember(SubSeq(inner, 2, close - 1), Strip(SubSeq(inner, close + 2, Len(inner))))
    ELSE NotJson

JsonObject(inner) ==
    JsonMembers(inner, IF Len(inner) >= 2 THEN FirstIndex(Tail(inner), {Quote}) + 1 ELSE 0)

JsonArray(inner) == IF inner = <<>> \/ JsonScalar(inner) THEN JsonNotDict ELSE NotJson

JsonValue(s) ==
    IF JsonScalar(s) THEN JsonNotDict
    ELSE IF Len(s) < 2 THEN NotJson
    ELSE IF s[1] = "[" /\ s[Len(s)] = "]" THEN JsonArray(Strip(SubSeq(s, 2, Len(s) - 1)))
    ELSE IF s[1] = "{" /\ s[Len(s)] = "}" THEN JsonObject(Strip(SubSeq(s, 2, Len(s) - 1)))
    ELSE NotJson

\* json.loads(text) on JSON restricted to scalars, arrays of at most one
\* scalar and objects of at most one member with a string value and a key
\* of KeyText: raised, or whether the value is a dict and which
json_loads(text) == JsonValue(Strip(text))

\* the branch for a str result.raw (main.py 191-200) given what json.loads did
MergeParsed(scraped_data, text, parsed_data) ==
    IF parsed_data.raised
    THEN [scraped_data EXCEPT !["analysis_report"] = Entry(text)]
    ELSE IF parsed_data.isDict
    THEN final_data(scraped_data, parsed_data.d)
    ELSE scraped_data

\* the merge of the final save (main.py 184-208): the merged dict, and
\* whether `import json` (line 194) has run; that import makes json a local
\* name of run_analysis, unbound until then
Merge(scraped_data, result) ==
    IF result.cls = "object" /\ Truthy(result.raw)
    THEN IF result.raw.t = "dict"
         THEN [data |-> final_data(scraped_data, result.raw.d), json_bound |-> FALSE]
         ELSE [data |-> MergeParsed(scraped_data, result.raw.s, json_loads(result.raw.s)),
               json_bound |-> TRUE]
    ELSE IF result.cls = "dict"
    THEN [data |-> final_data(scraped_data, result.d), json_bound |-> FALSE]
    ELSE IF Truthy(result.result)
    THEN [data |-> IF result.result.t = "dict"
                   THEN final_data(scraped_data, result.result.d)
                   ELSE [scraped_data EXCEPT !["analysis_report"] = Entry(result.result.s)],
          json_bound |-> FALSE]
    ELSE [data |-> scraped_data, json_bound |-> FALSE]

\* what open(path, 'w') leaves when nothing is written after it
EmptyFile == [truncated |-> TRUE]

\* `with open(path, 'w') as f: json.dump(content, f)` inside run_analysis:
\* open fails (w), or it truncates the file and json.dump writes content, or
\* raises UnboundLocalError when json is unbound
SaveAttempt(fs, path, content, w, json_bound) ==
    IF w # "ok" THEN [files |-> fs, how |-> "failed"]
    ELSE IF json_bound THEN [files |-> WriteFile(fs, path, content), how |-> "ok"]
    ELSE [files |-> WriteFile(fs, path, EmptyFile), how |-> "truncated"]

\* the `except` of the final save: the write of scraped_data alone, whose
\* own failure is caught as well; first is what the write of the merged
\* dict did
SaveFallback(first, path, scraped_data, m, w2) ==
    IF first.how = "ok"
    THEN [files |-> first.files, data |-> m.data, how |-> <<first.how>>]
    ELSE [files |-> SaveAttempt(first.files, path, scraped_data, w2, m.json_bound).files,
          data |-> m.data,
          how |-> <<first.how,
                    SaveAttempt(first.files, path, scraped_data, w2, m.json_bound).how>>]

SaveMerged(fs, path, scraped_data, m, w, w2) ==
    SaveFallback(SaveAttempt(fs, path, m.data, w, m.json_bound), path, scraped_data, m, w2)

\* the final save (main.py 179-225): the merge, the write of the merged
\* dict, and in the `except` the write of scraped_data
FinalSave(fs, path, scraped_data, result, w, w2) ==
    SaveMerged(fs, path, scraped_data, Merge(scraped_data, result), w, w2)

\* the events of the writes of a final save
WriteEvents(how, path) == [i \in 1..Len(how) |-> Event("write", "", how[i], 0, "", path)]

\* the object run_analysis builds from the three task outputs
CrewOutput(r) == ObjectResult(DictValue(r), Absent)

\* the effect of the final save on the files and the trace of the run
Saved(saved, path) ==
    /\ files' = saved.files
    /\ runTrace' = runTrace \o <<Sleep("pacing", API_CALL_DELAY * Ulp1)>>
                            \o WriteEvents(saved.how, path)

\* run_analysis from the return of analyze_images: the sleep, the final
\* save, and `return result`
RunSave ==
    /\ rpc = "image_running"
    /\ pc = "done"
    /\ \E w \in WriteFaults, w2 \in WriteFaults :
          Saved(FinalSave(files, AnalysisPath(doc), doc, CrewOutput(raw), w, w2),
                AnalysisPath(doc))
    /\ runOutcome' = [kind |-> "success", error |-> <<>>, raw |-> raw]
    /\ rpc' = "returned"
    /\ UNCHANGED <<unit, doc, errorLog, stage, pc, retry_count, cursor,
                   image_descriptions, outcome, trace, invocations, raw>>

\* no document yet: run_analysis starts with the fetch
InitRun ==
    /\ doc = EmptyDoc
    /\ InitRest

NextRun ==
    \/ RunScrape
    \/ ExecuteTask
    \/ RunImageStage
    \/ Describe
    \/ Request
    \/ Backoff
    \/ RunSave

\* one run of the whole pipeline
SpecRun == InitRun /\ [][NextRun]_vars

(***************************************************************************)
(* The callers of run_analysis: the terminal menu (main.py) and the        *)
(* dashboard (streamlit_app.py).                                           *)
(***************************************************************************)
\* some attribute names of a dict; a key of the dict is not an attribute
DictAttributes == {"get", "keys", "values", "items", "update", "copy", "pop"}

\* the attribute names of what run_analysis returned: the dict
\* {"error": ...} or the CrewOutput object with its one attribute raw
Attributes(result) == IF result.kind = "error" THEN DictAttributes ELSE {"raw"}

hasattr(result, name) == name \in Attributes(result)

\* the test `hasattr(result, 'error') and result.error` of both callers
ReportsFailure(result) == hasattr(result, "error") /\ result.error # <<>>

\* what a caller tells the user about the run
Report(ui, result) ==
    Event("report", ui, IF ReportsFailure(result) THEN "failed" ELSE "completed", 0, "", <<>>)

Reported == \E i \in DOMAIN runTrace : runTrace[i].ev = "report"

\* option 1 of the terminal menu after run_analysis returned: "Analysis
\* failed. ..." or "Analysis completed successfully!"
MenuReport ==
    /\ rpc = "returned"
    /\ ~Reported
    /\ runTrace' = runTrace \o <<Report("menu", runOutcome)>>
    /\ UNCHANGED <<rpc, raw, runOutcome>>
    /\ UNCHANGED <<unit, doc, files, errorLog, stage, pc, retry_count, cursor,
                   image_descriptions, outcome, trace, invocations>>

\* the Start Analysis button of the dashboard after run_analysis returned:
\* st.error("Analysis failed: ...") or st.success("Analysis completed
\* successfully!")
DashboardReport ==
    /\ rpc = "returned"
    /\ ~Reported
    /\ runTrace' = runTrace \o <<Report("dashboard", runOutcome)>>
    /\ UNCHANGED <<rpc, raw, runOutcome>>
    /\ UNCHANGED <<unit, doc, files, errorLog, stage, pc, retry_count, cursor,
                   image_descriptions, outcome, trace, invocations>>

NextUI ==
    \/ NextRun
    \/ MenuReport
    \/ DashboardReport

\* a run started from the menu or from the dashboard, and what they report
SpecUI == InitRun /\ [][NextUI]_vars

(***************************************************************************)
(* The final save of run_analysis entered with each kind of `result` its   *)
(* branches test for.                                                      *)
(***************************************************************************)
TextObject ==
    <<"{", Quote, "s", "e", "o", "_", "r", "e", "p", "o", "r", "t", Quote, ":", " ",
      Quote, "R", Quote, "}">>
TextArray == <<"[", "1", "]">>
TextNumber == <<"4", "2">>
TextPlain == <<"R", "e", "p", "o", "r", "t">>
TextCut == <<"{", Quote, "s", "e", "o", "_", "r", "e", "p", "o", "r", "t", Quote, ":">>
ResultTexts == {TextObject, TextArray, TextNumber, TextPlain, TextCut}

TaskOutputs ==
    [content_analysis |-> Entry(<<"C">>), image_analysis |-> Entry(<<"C">>),
     seo_report |-> Entry(<<"C">>)]

ResultShapes ==
    {CrewOutput(TaskOutputs), DictResult(TaskOutputs), ObjectResult(Absent, Absent),
     ObjectResult(Absent, DictValue(TaskOutputs)), ObjectResult(Absent, StrValue(TextPlain)),
     ObjectResult(StrValue(<<>>), Absent)}
    \cup { ObjectResult(StrValue(t), Absent) : t \in ResultTexts }

\* what a direct final save leaves; w2 matters only when the fallback ran
SavedDirectly(r, saved, w2) ==
    /\ ~(Len(saved.how) = 1 /\ w2 # "ok")
    /\ unit' = [op |-> "final_save", result |-> r, data |-> saved.data,
                how |-> saved.how, again |-> saved.data]
    /\ files' = saved.files

\* the final save applied to the document and a result
CallFinalSave ==
    /\ unit.op = "none"
    /\ doc["url"].has
    /\ \E r \in ResultShapes, w \in WriteFaults, w2 \in WriteFaults :
          SavedDirectly(r, FinalSave(files, AnalysisPath(doc), doc, r, w, w2), w2)
    /\ UNCHANGED <<doc, errorLog, stage, pc, retry_count, cursor, image_descriptions,
                   outcome, trace, invocations>>
    /\ UNCHANGED runVars

\* the merge applied once more, to the merged document and the same result
CallMergeAgain ==
    /\ unit.op = "final_save"
    /\ unit' = [unit EXCEPT !.op = "merge_again",
                            !.again = Merge(unit.data, unit.result).data]
    /\ UNCHANGED stageVars
    /\ UNCHANGED runVars

NextAgg ==
    \/ CallFinalSave
    \/ CallMergeAgain

\* the final save called directly
SpecAgg == Init /\ [][NextAgg]_vars

(***************************************************************************)
(* Vocabulary of the properties.                                           *)
(***************************************************************************)
\* the markers as the specification lists them
Markers == { <<"r", "a", "t", "e", " ", "l", "i", "m", "i", "t">>,
             <<"r", "a", "t", "e", "_", "l", "i", "m", "i", "t">>,
             <<"t", "p", "m">>,
             <<"t", "o", "k", "e", "n", "s", " ", "p", "e", "r", " ", "m", "i", "n", "u", "t", "e">>,
             <<"l", "i", "m", "i", "t", " ", "e", "x", "c", "e", "e", "d", "e", "d">> }

\* msg holds marker m at position i, letter case ignored
MarkerAt(msg, m, i) ==
    /\ i + Len(m) - 1 <= Len(msg)
    /\ \A k \in 1..Len(m) : LowerChar(msg[i + k - 1]) = m[k]

\* msg is the message of a rate-limit failure
RateLimitFailure(msg) == \E m \in Markers : \E i \in 1..Len(msg) : MarkerAt(msg, m, i)

\* positions of the trace
Calls == { i \in DOMAIN trace : trace[i].ev = "call" }
ResultCalls == { i \in Calls : trace[i].call = "result" }
ResultAnswers == { i \in DOMAIN trace : trace[i].ev \in {"returned", "raised"}
                                        /\ trace[i].call = "result" }
BackoffSleeps == { i \in DOMAIN trace : trace[i].ev = "sleep" /\ trace[i].what = "backoff" }
PacingSleeps == { i \in DOMAIN trace : trace[i].ev = "sleep" /\ trace[i].what = "pacing" }
OtherErrors == { i \in DOMAIN trace : trace[i].ev = "raised"
                                      /\ ~RateLimitFailure(trace[i].text) }
HasReturned == pc = "done"

\* the stages that write their result into the document
DocStages == {"keyword", "backlink", "url", "image"}

\* the sleeps of a direct handle_rate_limit call
IsSleep(e) == e.ev = "sleep"
UnitSleeps == SelectSeq(unit.effects, IsSleep)

(***************************************************************************)
(* C1: in every stage, once a rate-limit failure has led to a completed    *)
(* backoff sleep of handle_rate_limit, the stage sends its request again   *)
(* with the attempt count one higher; it never ends right after a backoff  *)
(* sleep.                                                                  *)
(***************************************************************************)
C1_RetryAfterBackoff ==
    [][pc = "backoff" => (pc' = "call" /\ retry_count' = retry_count + 1)]_vars

(***************************************************************************)
(* C2: a stage all of whose result requests failed with a rate-limit       *)
(* failure returns {"error": message} with the exhaustion message, never a *)
(* success and never an empty result.                                      *)
(***************************************************************************)
C2_ExhaustionIsFailure ==
    ( /\ HasReturned
      /\ ResultCalls # {}
      /\ \A i \in ResultAnswers : trace[i].ev = "raised" /\ RateLimitFailure(trace[i].text) )
    => /\ outcome.kind = "error"
       /\ outcome.error = ExhaustedMsg(MAX_RETRIES)
       /\ RateLimitFailure(outcome.error)

C2_Witness ==
    /\ HasReturned
    /\ Cardinality(ResultCalls) = MAX_RETRIES
    /\ \A i \in ResultAnswers : trace[i].ev = "raised" /\ RateLimitFailure(trace[i].text)
    /\ outcome.kind = "error"

(***************************************************************************)
(* C3 as stated: after any request of a stage raised an error that is not  *)
(* a rate-limit failure the invocation has returned a failure, and nothing *)
(* follows the error: no sleep, no handle_rate_limit, no further request.  *)
(***************************************************************************)
NothingAfter(i) ==
    \A j \in (i + 1)..Len(trace) :
        /\ trace[j].ev \notin {"sleep", "call"}
        /\ ~(trace[j].ev = "log" /\ trace[j].what = "rate_limit_wait")

C3_AnyOtherErrorAborts ==
    \A i \in OtherErrors : HasReturned /\ outcome.kind = "error" /\ NothingAfter(i)

(***************************************************************************)
(* C3 amended: the same for the result request of a stage (for the image   *)
(* stage its aggregate request); the failure returned carries the error.   *)
(***************************************************************************)
C3_OtherErrorOfResultRequestAborts ==
    \A i \in OtherErrors :
        trace[i].call = "result" =>
            /\ HasReturned
            /\ outcome = ErrorOutcome(trace[i].text)
            /\ NothingAfter(i)

C3_Witness ==
    /\ HasReturned
    /\ stage = "url"
    /\ \E i \in OtherErrors : trace[i].call = "result"
    /\ outcome.kind = "error"

(***************************************************************************)
(* C4: handle_rate_limit called with retry_count >= max_retries raises the *)
(* exhaustion error and has neither logged nor slept.                      *)
(***************************************************************************)
C4_ExhaustedBeforeSleep ==
    (unit.op = "handle_rate_limit" /\ unit.rc >= unit.max_retries)
    => /\ unit.raised
       /\ unit.raisedError = ExhaustedMsg(unit.max_retries)
       /\ unit.effects = <<>>

C4_Witness ==
    /\ unit.op = "handle_rate_limit"
    /\ unit.rc = MAX_RETRIES
    /\ unit.max_retries = MAX_RETRIES
    /\ unit.raised

(***************************************************************************)
(* C5: is_rate_limit_error is true exactly for the messages that hold one  *)
(* of the five markers, letter case ignored.                               *)
(***************************************************************************)
C5_MarkersDecide ==
    unit.op = "is_rate_limit_error" => (unit.verdict <=> RateLimitFailure(unit.error))

C5_Witness ==
    /\ unit.op = "is_rate_limit_error"
    /\ unit.verdict
    /\ unit.error # Lower(unit.error)

(***************************************************************************)
(* C6 as stated: for retry_count < max_retries handle_rate_limit sleeps    *)
(* once, for a time in [base * 2^attempt, base * 2^attempt + 1), and       *)
(* returns retry_count + 1.                                                *)
(***************************************************************************)
C6_DelayBelowUpperBound ==
    (unit.op = "handle_rate_limit" /\ unit.rc < unit.max_retries)
    => /\ ~unit.raised
       /\ unit.ret = unit.rc + 1
       /\ Len(UnitSleeps) = 1
       /\ UnitSleeps[1].secs >= unit.base_delay * (2 ^ unit.rc) * Ulp1
       /\ UnitSleeps[1].secs < (unit.base_delay * (2 ^ unit.rc) + 1) * Ulp1

(***************************************************************************)
(* C6 amended: for a base delay >= 0, the same with the closed interval    *)
(* [base * 2^attempt, base * 2^attempt + 1]: the float sum of the base     *)
(* term and a jitter below 1 can round up to the upper end, and            *)
(* time.sleep refuses the negative delay a negative base gives.            *)
(***************************************************************************)
C6_DelayWithinBounds ==
    (unit.op = "handle_rate_limit" /\ unit.rc < unit.max_retries /\ unit.base_delay >= 0)
    => /\ ~unit.raised
       /\ unit.ret = unit.rc + 1
       /\ Len(UnitSleeps) = 1
       /\ UnitSleeps[1].secs >= unit.base_delay * (2 ^ unit.rc) * Ulp1
       /\ UnitSleeps[1].secs <= (unit.base_delay * (2 ^ unit.rc) + 1) * Ulp1

C6_Witness ==
    /\ unit.op = "handle_rate_limit"
    /\ unit.rc = 2
    /\ unit.max_retries = MAX_RETRIES
    /\ unit.base_delay = RATE_LIMIT_DELAY
    /\ unit.jitter = Ulp1 - 1
    /\ Len(UnitSleeps) = 1
    /\ unit.ret = 3

(***************************************************************************)
(* C7: every request a stage sends to the reasoning service is preceded by *)
(* the pacing delay, applied after the previous request.                   *)
(***************************************************************************)
C7_PacedBeforeEveryCall ==
    \A i \in Calls :
        \E j \in PacingSleeps :
            /\ j < i
            /\ trace[j].secs = API_CALL_DELAY * Ulp1
            /\ \A k \in Calls : ~(j < k /\ k < i)

\* the text of the last answer the result request got
LastResultText ==
    LET last == CHOOSE i \in ResultAnswers : \A j \in ResultAnswers : j <= i
    IN  trace[last].text

\* the file at path holds content
Persisted(path, content) == path \in DOMAIN files /\ files[path] = content

\* what C8 promises on return
WrittenThrough ==
    /\ doc[StageKey(stage)] = Entry(Strip(LastResultText))
    /\ Persisted(AnalysisPath(doc), doc)
    /\ outcome.kind = "success"
    /\ outcome.file = AnalysisPath(doc)

C9_FailureIsRecorded ==
    ( /\ HasReturned
      /\ stage \in DocStages
      /\ outcome.kind = "error" )
    => /\ doc[StageKey(stage)] = Entry(outcome.error)
       /\ Persisted(AnalysisPath(doc), doc)

\* the final save ran and no open(path, 'w') of it failed
FinalOpensSucceeded ==
    /\ \E i \in DOMAIN runTrace : runTrace[i].ev = "write"
    /\ \A i \in DOMAIN runTrace : runTrace[i].ev = "write" => runTrace[i].what # "failed"

(***************************************************************************)
(* C10: a run of run_analysis in which the image stage failed all its      *)
(* retries and every other step succeeded ends with a persisted document   *)
(* that holds results for the content, keyword, backlink and url stages    *)
(* and an error entry under image_analysis.                                *)
(***************************************************************************)
C10_PartialPipelineIsPersisted ==
    ( /\ rpc = "returned"
      /\ runOutcome.kind = "success"
      /\ outcome = ErrorOutcome(ExhaustedMsg(MAX_RETRIES))
      /\ FinalOpensSucceeded )
    => /\ AnalysisPath(doc) \in DOMAIN files
       /\ files[AnalysisPath(doc)] # EmptyFile
       /\ LET persisted == files[AnalysisPath(doc)]
          IN  /\ persisted["content_analysis"].has
              /\ persisted["keyword_analysis"].has
              /\ persisted["backlink_analysis"].has
              /\ persisted["url_analysis"].has
              /\ persisted["image_analysis"] = Entry(ExhaustedMsg(MAX_RETRIES))

(***************************************************************************)
(* Vocabulary of the properties of a run.                                  *)
(***************************************************************************)
\* the Fetcher returned a document / an error
RunFetched ==
    Len(runTrace) >= 1 /\ runTrace[1].ev = "fetch" /\ runTrace[1].what = "ok"
RunFetchFailed ==
    Len(runTrace) >= 1 /\ runTrace[1].ev = "fetch" /\ runTrace[1].what = "failed"

\* the steps of a run after the fetch
Tasks == {"content", "image", "seo"}
TaskCalled(t) ==
    \E i \in DOMAIN runTrace : runTrace[i].ev = "call" /\ runTrace[i].what = t
ImageStageInvoked == stage = "image"
SaveRan == \E i \in DOMAIN runTrace : runTrace[i].ev = "write"

\* the errors stage calls raised in a run that are not rate-limit failures,
\* in the order they were raised: those of the tasks, then those of the
\* result request of the image stage
IsOtherTaskError(e) == e.ev = "raised" /\ ~RateLimitFailure(e.text)
IsOtherResultError(e) == IsOtherTaskError(e) /\ e.call = "result"
FatalErrors == SelectSeq(runTrace, IsOtherTaskError) \o SelectSeq(trace, IsOtherResultError)

(***************************************************************************)
(* C11: in a run whose fetch succeeded, whatever stage failed, every later *)
(* stage and the final save are still executed: a returned run has called  *)
(* the three tasks, invoked the image stage and written the final          *)
(* document.                                                               *)
(***************************************************************************)
C11_LaterStagesStillRun ==
    (rpc = "returned" /\ RunFetched)
    => /\ \A t \in Tasks : TaskCalled(t)
       /\ ImageStageInvoked
       /\ SaveRan

(***************************************************************************)
(* C12: when the Fetcher returns an error, run_analysis returns that       *)
(* failure at once: no task is called, the image stage is not invoked, no  *)
(* request is sent and no file is written.                                 *)
(***************************************************************************)
C12_FetchFailureEndsRun ==
    RunFetchFailed
    => /\ rpc = "returned"
       /\ runOutcome = RunError(runTrace[1].text)
       /\ Len(runTrace) = 1
       /\ stage = "none"
       /\ trace = <<>>
       /\ files = NoFiles

C12_Witness ==
    /\ RunFetchFailed
    /\ rpc = "returned"
    /\ runOutcome.kind = "error"

(***************************************************************************)
(* C13: a returned run whose fetch succeeded is a failure carrying the     *)
(* first error of a stage call that is not a rate-limit failure when there *)
(* is one, and a success otherwise.                                        *)
(***************************************************************************)
C13_FatalExactlyOnOtherError ==
    (rpc = "returned" /\ RunFetched)
    => IF FatalErrors # <<>>
       THEN runOutcome.kind = "error" /\ runOutcome.error = FatalErrors[1].text
       ELSE runOutcome.kind = "success"

(***************************************************************************)
(* Vocabulary of the properties of the image stage.                        *)
(***************************************************************************)
\* the step in which analyze_images is entered
ImageEntryStep == invocations' = invocations + 1 /\ stage' = "image"

Images(d) == Get(d, "images", <<>>)

\* an image without what the stage adds to a selected one
Bare(img) == [img EXCEPT !.base64_data = FALSE, !.mime_type = ""]
BareAll(images) == [i \in 1..Len(images) |-> Bare(images[i])]

\* the types the specification allows
AllowedSuffixes == { <<".", "j", "p", "e", "g">>, <<".", "j", "p", "g">>,
                     <<".", "p", "n", "g">>, <<".", "w", "e", "b", "p">> }
EndsWith(s, suf) ==
    Len(s) >= Len(suf) /\ SubSeq(s, Len(s) - Len(suf) + 1, Len(s)) = suf
Eligible(img) ==
    /\ img.local_path # <<>>
    /\ \E suf \in AllowedSuffixes : EndsWith(Lower(img.local_path), suf)

\* the first 2 eligible images in document order
VisionEligible(images) ==
    LET E == { i \in 1..Len(images) : Eligible(images[i]) }
        First2 == { i \in E : Cardinality({ j \in E : j < i }) < 2 }
        Nth(k) == CHOOSE i \in First2 : Cardinality({ j \in First2 : j < i }) = k - 1
    IN  [k \in 1..Cardinality(First2) |-> images[Nth(k)]]

DescribeCalls == { i \in Calls : trace[i].call = "describe" }

RECURSIVE IsSubSeq(_, _)
\* s occurs in t as a subsequence
IsSubSeq(s, t) ==
    IF s = <<>> THEN TRUE
    ELSE IF t = <<>> THEN FALSE
    ELSE IF Head(s) = Head(t) THEN IsSubSeq(Tail(s), Tail(t))
    ELSE IsSubSeq(s, Tail(t))

(***************************************************************************)
(* C14: the images the image stage selects for vision analysis are the     *)
(* first 2, in document order, of the images that have a local path ending *)
(* in .jpeg, .jpg, .png or .webp, letter case ignored; of                  *)
(* [.jpg, .gif, .png, .webp, .bmp] they are [.jpg, .png]; and a stage run  *)
(* sends at most 2 requests that carry an image.                           *)
(***************************************************************************)
C14_FirstTwoEligibleSelected ==
    [][ /\ ImageEntryStep =>
            /\ BareAll(Images(doc')) = BareAll(VisionEligible(Images(doc)))
            /\ (Images(doc) = <<JpgUpper, Gif, Png, Webp, Bmp>>
                => BareAll(Images(doc')) = <<JpgUpper, Png>>)
        /\ Cardinality(DescribeCalls') <= 2 ]_vars

C14_Witness ==
    /\ stage = "image"
    /\ HasReturned
    /\ Get(doc, "url", <<>>) = UrlA
    /\ BareAll(Images(doc)) = <<JpgUpper, Png>>
    /\ Cardinality(DescribeCalls) = 2

(***************************************************************************)
(* C15: the image stage keeps every image of the document's images list,   *)
(* in the same order, and leaves each image it did not select as it was.   *)
(***************************************************************************)
C15_ImagesRetained ==
    [][ ImageEntryStep =>
            /\ IsSubSeq(Images(doc), BareAll(Images(doc')))
            /\ \A i \in 1..Len(Images(doc)) :
                  (\A k \in 1..Len(VisionEligible(Images(doc))) :
                        VisionEligible(Images(doc))[k] # Images(doc)[i])
                  => \E j \in 1..Len(Images(doc')) : Images(doc')[j] = Images(doc)[i]
      ]_vars

\* the answers of the description requests of the invocation, in order, and
\* the images of the document that carry base64 data
IsDescribeAnswer(e) == e.ev \in {"returned", "raised"} /\ e.call = "describe"
DescribeAnswers == SelectSeq(trace, IsDescribeAnswer)
HasBase64(img) == img.base64_data
WithBase64 == SelectSeq(Images(doc), HasBase64)

(***************************************************************************)
(* C16: in the image stage a description request that fails, with a        *)
(* rate-limit failure or any other error, does not end the stage: the      *)
(* description "Error generating description" is recorded for that image,  *)
(* the remaining images get their description requests, and the aggregate  *)
(* request is sent.                                                        *)
(***************************************************************************)
C16_DescriptionFailureIsIsolated ==
    stage = "image"
    => /\ Len(image_descriptions) = Len(DescribeAnswers)
       /\ \A k \in 1..Len(DescribeAnswers) :
             DescribeAnswers[k].ev = "raised"
             => image_descriptions[k] =
                    [url |-> WithBase64[k].url, description |-> ErrorGeneratingDescription]
       /\ pc # "describe"
          => /\ Len(DescribeAnswers) = Len(WithBase64)
             /\ doc["image_descriptions"] = Entry(image_descriptions)
       /\ HasReturned => ResultCalls # {}

C16_Witness ==
    /\ stage = "image"
    /\ HasReturned
    /\ outcome.kind = "success"
    /\ Len(DescribeAnswers) = 2
    /\ DescribeAnswers[1].ev = "raised"
    /\ RateLimitFailure(DescribeAnswers[1].text)
    /\ DescribeAnswers[2].ev = "raised"
    /\ ~RateLimitFailure(DescribeAnswers[2].text)
    /\ doc["image_descriptions"].val[1].description = ErrorGeneratingDescription
    /\ doc["image_descriptions"].val[2].description = ErrorGeneratingDescription

\* the final save was applied to a result
SavedResult == unit.op \in {"final_save", "merge_again"}

C18_MergeIsIdempotent ==
    unit.op = "merge_again"
    => /\ unit.again = unit.data
       /\ \A k \in DocKeys : doc[k].has => unit.again[k] # Missing

C18_Witness ==
    /\ unit.op = "merge_again"
    /\ unit.result = CrewOutput(TaskOutputs)
    /\ unit.data # doc
    /\ unit.data["seo_report"] = Entry(<<"C">>)
    /\ unit.again = unit.data

(***************************************************************************)
(* C19: a stage whose request succeeded and whose write of the output file *)
(* failed still returns success.                                           *)
(***************************************************************************)
C19_WriteFailureIsNotFailure ==
    ( /\ HasReturned
      /\ \E i \in DOMAIN trace : trace[i].ev = "write" /\ trace[i].what = "failed" )
    => outcome.kind = "success"

\* the names log lines are tagged with
AgentNames == { StageAgent(s) : s \in Stages } \cup {"ScraperAgent"}

\* the fixed parts of the log lines that report a failure
FailureLines ==
    { StageFn(s) : s \in Stages }
    \cup {"scrape_website error", "Failed to convert image to base64",
          "Failed to get image description"}

(***************************************************************************)
(* C20: error.log only grows at its end, and every line in it reports a    *)
(* failure and is tagged with the agent it comes from.                     *)
(***************************************************************************)
C20_LogIsTaggedFailures ==
    [][ /\ Len(errorLog') >= Len(errorLog)
        /\ SubSeq(errorLog', 1, Len(errorLog)) = errorLog
        /\ \A i \in DOMAIN errorLog' :
              /\ errorLog'[i].agent \in AgentNames
              /\ errorLog'[i].what \in FailureLines ]_vars

(***************************************************************************)
(* C21: in every state of a stage invocation the retry counter lies in     *)
(* 0..MAX_RETRIES, the stage is never about to call handle_rate_limit with *)
(* a counter that has reached MAX_RETRIES, and a counter that has reached  *)
(* MAX_RETRIES means the stage has ended in failure.                       *)
(***************************************************************************)
C21_RetryCountBounded ==
    /\ retry_count \in 0..MAX_RETRIES
    /\ pc = "backoff" => retry_count < MAX_RETRIES
    /\ retry_count = MAX_RETRIES => pc = "done" /\ outcome.kind = "error"

\* a stage whose counter reached MAX_RETRIES and which ended in failure
C21_Witness ==
    /\ retry_count = MAX_RETRIES
    /\ pc = "done"
    /\ outcome = ErrorOutcome(ExhaustedMsg(MAX_RETRIES))
    /\ Cardinality(BackoffSleeps) = MAX_RETRIES

(***************************************************************************)
(* C22: whatever the external calls answer, a started stage invocation     *)
(* terminates with a success or a failure outcome, and it never sends its  *)
(* result request more than MAX_RETRIES times nor sleeps more than         *)
(* MAX_RETRIES backoff sleeps.                                             *)
(***************************************************************************)
Running == pc \in {"describe", "call", "backoff"}
Terminated == pc = "done" /\ outcome.kind \in {"success", "error"}

C22_StageTerminates ==
    /\ [](Cardinality(ResultCalls) <= MAX_RETRIES /\ Cardinality(BackoffSleeps) <= MAX_RETRIES)
    /\ Running ~> Terminated

\* an invocation that ended after MAX_RETRIES result requests, each followed
\* by a backoff sleep
C22_Witness ==
    /\ Terminated
    /\ Cardinality(ResultCalls) = MAX_RETRIES
    /\ Cardinality(BackoffSleeps) = MAX_RETRIES
    /\ stage \in DocStages

(***************************************************************************)
(* C23: no stage lets an exception reach its caller: every invocation that *)
(* has ended has returned the success record or {"error": message}.        *)
(***************************************************************************)
C23_NoExceptionPropagates ==
    HasReturned => outcome.kind \in {"success", "error"}

(***************************************************************************)
(* C24: a step of an analysis stage changes no key of the shared document  *)
(* but the stage's own result key.                                         *)
(***************************************************************************)
C24_OnlyOwnKeyChanges ==
    [][\A k \in DocKeys : doc'[k] # doc[k] => stage' \in DocStages /\ k = StageKey(stage')]_vars

(***************************************************************************)
(* C25: the request of the report step carries the result of every stage   *)
(* that finished before it: when the report task has been called, its      *)
(* request holds the content analysis and the image analysis that the run  *)
(* has obtained.                                                           *)
(***************************************************************************)
ReportRequests ==
    { i \in DOMAIN runTrace : runTrace[i].ev = "call" /\ runTrace[i].what = "seo" }

C25_ReportRequestHoldsEarlierResults ==
    \A i \in ReportRequests :
        \A t \in {"content", "image"} :
            raw[TaskKey(t)].has => runTrace[i].text.json[TaskKey(t)] = raw[TaskKey(t)]

(***************************************************************************)
(* C26: the result request of a keyword, backlink, url or image stage is   *)
(* the same as the one the stage would have sent had the document differed *)
(* in the result entry of another stage.                                   *)
(***************************************************************************)
ResultKeys == { StageKey(s) : s \in Stages } \cup {"content_analysis"}

\* the document the prompt of request i was built from
PromptSource(i) == IF stage = "image" THEN doc ELSE trace[i].text.json

C26_PayloadIgnoresOtherEntries ==
    stage \in DocStages =>
        \A i \in ResultCalls :
            \A k \in ResultKeys \ {StageKey(stage)} :
                \A r \in Responses :
                    RequestPayload(stage, [PromptSource(i) EXCEPT ![k] = Entry(Strip(r))])
                        = trace[i].text

(***************************************************************************)
(* C27: url, title, meta_tags, headings and paragraphs keep the values the *)
(* Fetcher gave them: in the shared document at every point of the run, in *)
(* the document the final merge builds, and in every analysis file that    *)
(* holds a document.                                                       *)
(***************************************************************************)
FetcherKeys == {"url", "title", "meta_tags", "headings", "paragraphs"}

\* the Fetcher's output as it was saved by the scrape
FetcherOutput == files[ScrapePath(doc)]

HoldsDocument(path) == path \in DOMAIN files /\ files[path] # EmptyFile

FirstResultCall == CHOOSE i \in ResultCalls : \A j \in ResultCalls : i <= j

C28_FailureLeavesDocument ==
    (HasReturned /\ outcome.kind = "error") =>
        /\ (stage \in TextStages /\ ResultCalls # {}) => doc = trace[FirstResultCall].text.json
        /\ stage = "image" => doc \in InitialDocs

(***************************************************************************)
(* C29: after a run whose direct image stage succeeded, image_analysis of  *)
(* the final document is the text that stage stored: the merge of the      *)
(* final save keeps it, and the analysis file holds it.                    *)
(***************************************************************************)
C29_ImageAnalysisIsTheStagesText ==
    (rpc = "returned" /\ runOutcome.kind = "success" /\ outcome.kind = "success" /\ SaveRan)
    => /\ Merge(doc, CrewOutput(raw)).data["image_analysis"] = doc["image_analysis"]
       /\ HoldsDocument(AnalysisPath(doc))
       /\ files[AnalysisPath(doc)]["image_analysis"] = doc["image_analysis"]

(***************************************************************************)
(* C30: when run_analysis returned {"error": message}, what the terminal   *)
(* menu or the dashboard reports is that the analysis failed.              *)
(***************************************************************************)
Reports == { i \in DOMAIN runTrace : runTrace[i].ev = "report" }

C30_FailureIsReportedAsFailure ==
    runOutcome.kind = "error" => \A i \in Reports : runTrace[i].what = "failed"

====
